---- MODULE Spec2Model ----
(***************************************************************************)
(* Model of the wormhole relay: the in-memory TransferStore               *)
(* (wormhole-relay/src/store.ts) and the HTTP handlers of RelayServer     *)
(* (wormhole-relay/src/server.js).                                        *)
(*                                                                         *)
(* Node runs every handler and every timer callback to completion on one  *)
(* thread, so each action below is one callback: a whole GET or DELETE    *)
(* request, one 'data' / 'end' / 'error' event of a PUT upload, one firing *)
(* of the cleanup interval, or one direct call of a store method.         *)
(***************************************************************************)
EXTENDS Integers, Sequences, FiniteSets, TLC

\* ------------------------------------------------------------------ bounds
MaxTime == 2        \* Date.now() ranges over 0..MaxTime
maxSize == 2        \* StoreOptions.maxSize chosen for the model
ttlMs == 1          \* StoreOptions.ttlMs chosen for the model

Ids == {"a1", "b2"}
Byte == {0, 1}
Conns == {1, 2}          \* PUT uploads in flight at once
\* bytes in one 'data' chunk: the client of connection 1 writes one or two
\* bytes at a time, the client of connection 2 byte by byte
ChunkLens(c) == IF c = 1 THEN {1, 2} ELSE {1}

\* ----------------------------------------------------------------- helpers
\* Buffer.alloc(n, b)
alloc(n, b) == [i \in 1..n |-> b]

\* what the direct callers of put hand over: a short payload, two different
\* payloads of exactly the cap, and one of one byte more
Payloads == {alloc(1, 0), alloc(maxSize + 1, 0)} \cup {alloc(maxSize, b) : b \in Byte}

\* the j-th byte that the client of connection c sends: every byte on the
\* wire is distinct, so a chunk that is lost, reordered or taken from the
\* other upload shows in the stored data
ByteOf(c, j) == 10 * c + j

NoEntries == [i \in {} |-> 0]
NoEntry == [data |-> <<>>, createdAt |-> 0, sent |-> <<>>]

Without(es, ids) == [i \in DOMAIN es \ ids |-> es[i]]

VARIABLES
  entries,       \* TransferStore.entries: id -> [data, createdAt] and, as
                 \* history, sent (the bytes the caller of put handed over)
  cleanupTimer,  \* TRUE while the setInterval handle is held
  now,           \* Date.now()
  conn,          \* per connection: the closure of one handlePut call
  last,          \* the outcome of the latest callback, as its caller sees it
  ledger,        \* history: per id, the fate of its latest accepted put
  owed,          \* history: puts accepted, less the entries that get, delete
                 \* and cleanup reported as handed out or removed and
                 \* those that destroy cleared
  race           \* history: per id, put outcomes since its entry was last removed

vars == <<entries, cleanupTimer, now, conn, last, ledger, owed, race>>

\* ------------------------------------------------------- TransferStore
\* put without the has(id) check: a second put replaces the entry
put_noCheck(es, id, data, t, sent) ==
  IF Len(data) > maxSize
  THEN [ok |-> FALSE, error |-> "too large", entries |-> es]
  ELSE [ok |-> TRUE, error |-> "",
        entries |-> (id :> [data |-> data, createdAt |-> t, sent |-> sent]) @@ es]

\* put that stores before it reports the duplicate
put_clobber(es, id, data, t, sent) ==
  IF Len(data) > maxSize
  THEN [ok |-> FALSE, error |-> "too large", entries |-> es]
  ELSE [ok |-> id \notin DOMAIN es,
        error |-> IF id \in DOMAIN es THEN "exists" ELSE "",
        entries |-> (id :> [data |-> data, createdAt |-> t, sent |-> sent]) @@ es]

\* put with data.length >= this.maxSize
put_offByOne(es, id, data, t, sent) ==
  IF Len(data) >= maxSize
  THEN [ok |-> FALSE, error |-> "too large", entries |-> es]
  ELSE IF id \in DOMAIN es
  THEN [ok |-> FALSE, error |-> "exists", entries |-> es]
  ELSE [ok |-> TRUE, error |-> "",
        entries |-> (id :> [data |-> data, createdAt |-> t, sent |-> sent]) @@ es]

\* put of a store that takes nothing once destroy has released the timer
put_closed(es, id, data, t, sent) ==
  IF ~cleanupTimer
  THEN [ok |-> FALSE, error |-> "destroyed", entries |-> es]
  ELSE IF Len(data) > maxSize
  THEN [ok |-> FALSE, error |-> "too large", entries |-> es]
  ELSE IF id \in DOMAIN es
  THEN [ok |-> FALSE, error |-> "exists", entries |-> es]
  ELSE [ok |-> TRUE, error |-> "",
        entries |-> (id :> [data |-> data, createdAt |-> t, sent |-> sent]) @@ es]

put(es, id, data, t, sent) ==
  IF Len(data) > maxSize
  THEN [ok |-> FALSE, error |-> "too large", entries |-> es]
  ELSE IF id \in DOMAIN es
  THEN [ok |-> FALSE, error |-> "exists", entries |-> es]
  ELSE [ok |-> TRUE, error |-> "",
        entries |-> (id :> [data |-> data, createdAt |-> t, sent |-> sent]) @@ es]

\* put of a store constructed without options: this.maxSize is the default
DefaultMaxSize == 1048576
putDefault(es, id, data, t, sent) ==
  IF Len(data) > DefaultMaxSize
  THEN [ok |-> FALSE, error |-> "too large", entries |-> es]
  ELSE IF id \in DOMAIN es
  THEN [ok |-> FALSE, error |-> "exists", entries |-> es]
  ELSE [ok |-> TRUE, error |-> "",
        entries |-> (id :> [data |-> data, createdAt |-> t, sent |-> sent]) @@ es]

\* get without this.entries.delete(id)
get_keep(es, id) ==
  IF id \notin DOMAIN es
  THEN [found |-> FALSE, entry |-> NoEntry, entries |-> es]
  ELSE [found |-> TRUE, entry |-> es[id], entries |-> es]

\* get with the null test inverted: if (entry) return null
get_inverted(es, id) ==
  [found |-> FALSE, entry |-> NoEntry, entries |-> es]

\* get that leaves a tombstone under the id instead of deleting it
get_tombstone(es, id) ==
  IF id \notin DOMAIN es
  THEN [found |-> FALSE, entry |-> NoEntry, entries |-> es]
  ELSE [found |-> TRUE, entry |-> es[id],
        entries |-> [es EXCEPT ![id] = [@ EXCEPT !.data = <<>>, !.sent = <<>>]]]

\* get: found = FALSE stands for the null result
get(es, id) ==
  IF id \notin DOMAIN es
  THEN [found |-> FALSE, entry |-> NoEntry, entries |-> es]
  ELSE [found |-> TRUE, entry |-> es[id], entries |-> Without(es, {id})]

\* delete that returns true whether or not the id was there
delete_alwaysTrue(es, id) ==
  [removed |-> TRUE, entries |-> Without(es, {id})]

delete(es, id) ==
  [removed |-> id \in DOMAIN es, entries |-> Without(es, {id})]

\* cleanup with now - entry.createdAt >= this.ttlMs
cleanup_atTtl(es, t) ==
  LET old == {id \in DOMAIN es : t - es[id].createdAt >= ttlMs}
  IN  [removed |-> Cardinality(old), entries |-> Without(es, old)]

\* cleanup with removed++ outside the if
cleanup_countAll(es, t) ==
  LET old == {id \in DOMAIN es : t - es[id].createdAt > ttlMs}
  IN  [removed |-> Cardinality(DOMAIN es), entries |-> Without(es, old)]

\* cleanup with the operands of the subtraction swapped: nothing is ever old
cleanup_reversed(es, t) ==
  LET old == {id \in DOMAIN es : es[id].createdAt - t > ttlMs}
  IN  [removed |-> Cardinality(old), entries |-> Without(es, old)]

cleanup(es, t) ==
  LET old == {id \in DOMAIN es : t - es[id].createdAt > ttlMs}
  IN  [removed |-> Cardinality(old), entries |-> Without(es, old)]

\* destroy with this.entries.clear() inside the if (this.cleanupTimer)
destroy_clearOnce(es, timer) ==
  [cleanupTimer |-> FALSE,
   entries |-> IF timer THEN Without(es, DOMAIN es) ELSE es]

\* destroy without clearInterval: the handle stays
destroy_keepTimer(es, timer) ==
  [cleanupTimer |-> timer, entries |-> Without(es, DOMAIN es)]

\* destroy: clearInterval and null when the handle is held, then clear()
destroy(es, timer) ==
  [cleanupTimer |-> FALSE, entries |-> Without(es, DOMAIN es)]

\* ------------------------------------------------------------- history
NoConn == [active |-> FALSE, id |-> "", chunks |-> <<>>, size |-> 0,
           writableEnded |-> FALSE, sent |-> <<>>, opened |-> 0, fed |-> 0]

\* a connection whose request is over; opened and fed stay as the times at
\* which its latest request and that request's first chunk arrived (history)
Closed(k) == [NoConn EXCEPT !.opened = k.opened, !.fed = k.fed]

\* of the latest accepted put for an id: put = there is one; reads = gets that
\* returned its entry; missed = a get for the id has answered null since;
\* removals = deletes, sweeps and destroys that took its entry out of the map
NoPut == [put |-> FALSE, reads |-> 0, missed |-> FALSE, removals |-> 0]

\* the entry of the latest accepted put for id was handed out or removed
WasGone(id) == ledger[id].put /\ ledger[id].reads + ledger[id].removals >= 1

\* acc: puts accepted, dup: some put was rejected as duplicate
NoRace == [acc |-> 0, dup |-> FALSE]

\* again (of an accepted put): the id had held an earlier entry, gone by then;
\* code, value (of a client call): the code text it was given or drew, and
\* what it returned
Result(op, id, status, ok, error, body, sent, age, len, removed) ==
  [op |-> op, id |-> id, status |-> status, ok |-> ok, error |-> error,
   body |-> body, sent |-> sent, age |-> age, len |-> len, removed |-> removed,
   again |-> FALSE, code |-> <<>>, value |-> <<>>]

Quiet(op) == Result(op, "", 0, TRUE, "", <<>>, <<>>, -1, 0, 0)

\* the ids whose entries are in es and no longer in es2
Gone(es, es2) == DOMAIN es \ DOMAIN es2

AgeOf(id) == now - entries[id].createdAt

AgeOrNone(id) == IF id \in DOMAIN entries THEN AgeOf(id) ELSE -1

Live == Cardinality(DOMAIN entries)

\* store.count
count(es) == Cardinality(DOMAIN es)

Init ==
  /\ entries = NoEntries
  /\ cleanupTimer = TRUE
  /\ now = 0
  /\ conn = [c \in Conns |-> NoConn]
  /\ last = Quiet("new")
  /\ ledger = [i \in Ids |-> NoPut]
  /\ owed = 0
  /\ race = [i \in Ids |-> NoRace]

\* history kept by a callback that takes the store from entries to es2 and
\* reports n entries as handed out or removed
Removed(es2, byGet, n) ==
  /\ ledger' = [i \in Ids |->
                  IF i \in Gone(entries, es2) /\ ~byGet
                  THEN [ledger[i] EXCEPT !.removals = @ + 1]
                  ELSE ledger[i]]
  /\ race' = [i \in Ids |-> IF i \in Gone(entries, es2) THEN NoRace ELSE race[i]]
  /\ owed' = owed - n

\* ------------------------------------------------------------ RelayServer
\* concat that puts the chunks together last to first
RECURSIVE concat_reversed(_)
concat_reversed(cs) ==
  IF cs = <<>> THEN <<>> ELSE concat_reversed(Tail(cs)) \o Head(cs)

\* Buffer.concat(chunks)
RECURSIVE concat(_)
concat(cs) == IF cs = <<>> THEN <<>> ELSE Head(cs) \o concat(Tail(cs))

\* store.put as called by the 'end' handler and by a direct caller, with the
\* history of its outcome; sent is what the caller handed over
StorePut(op, id, data, sent, okStatus, errStatus) ==
  LET r == put(entries, id, data, now, sent)
  IN  /\ entries' = r.entries
      /\ last' = [Result(op, id, IF r.ok THEN okStatus ELSE errStatus, r.ok,
                         r.error, <<>>, sent, AgeOrNone(id), Len(data), 0)
                    EXCEPT !.again = r.ok /\ WasGone(id)]
      /\ ledger' = IF r.ok THEN [ledger EXCEPT ![id] = [NoPut EXCEPT !.put = TRUE]]
                   ELSE ledger
      /\ owed' = owed + (IF r.ok THEN 1 ELSE 0)
      /\ race' = IF r.ok THEN [race EXCEPT ![id].acc = @ + 1]
                 ELSE IF r.error = "exists" THEN [race EXCEPT ![id].dup = TRUE]
                 ELSE race

\* handlePut that takes the id for its request as soon as the request arrives
HandlePut_reserve(c, id) ==
  /\ ~conn[c].active
  /\ conn' = [conn EXCEPT ![c] = [NoConn EXCEPT !.active = TRUE, !.id = id,
                                                !.opened = now, !.fed = now]]
  /\ StorePut("open", id, <<>>, <<>>, 0, 0)
  /\ UNCHANGED <<cleanupTimer, now>>

\* handleRequest -> handlePut: a PUT /transfer/:id request arrives
HandlePut(c, id) ==
  /\ ~conn[c].active
  /\ conn' = [conn EXCEPT ![c] = [NoConn EXCEPT !.active = TRUE, !.id = id,
                                                !.opened = now, !.fed = now]]
  /\ last' = Quiet("open")
  /\ UNCHANGED <<entries, cleanupTimer, now, ledger, owed, race>>

\* the time at which the first chunk of the request of k arrived (history)
Fed(k) == IF k.size = 0 THEN now ELSE k.fed

\* the 'data' handler with size >= maxSize as its test
OnData_atCap(c, n) ==
  LET k == conn[c]
      chunk == [j \in 1..n |-> ByteOf(c, k.size + j)]
      size == k.size + Len(chunk)
  IN  /\ k.active
      /\ ~k.writableEnded
      /\ conn' = [conn EXCEPT ![c] =
                     IF size >= maxSize
                     THEN [k EXCEPT !.size = size, !.writableEnded = TRUE,
                                    !.sent = @ \o chunk, !.fed = Fed(k)]
                     ELSE [k EXCEPT !.size = size, !.chunks = Append(@, chunk),
                                    !.sent = @ \o chunk, !.fed = Fed(k)]]
      /\ last' = IF size >= maxSize
                 THEN Result("data", k.id, 413, FALSE, "Payload too large",
                             <<>>, <<>>, -1, size, 0)
                 ELSE Result("data", k.id, 0, TRUE, "", <<>>, <<>>, -1, size, 0)
      /\ UNCHANGED <<entries, cleanupTimer, now, ledger, owed, race>>

\* req.on('data') with a chunk of n bytes; req.destroy() after the 413 stops
\* further 'data' events
OnData(c, n) ==
  LET k == conn[c]
      chunk == [j \in 1..n |-> ByteOf(c, k.size + j)]
      size == k.size + Len(chunk)
  IN  /\ k.active
      /\ ~k.writableEnded
      /\ conn' = [conn EXCEPT ![c] =
                     IF size > maxSize
                     THEN [k EXCEPT !.size = size, !.writableEnded = TRUE,
                                    !.sent = @ \o chunk, !.fed = Fed(k)]
                     ELSE [k EXCEPT !.size = size, !.chunks = Append(@, chunk),
                                    !.sent = @ \o chunk, !.fed = Fed(k)]]
      /\ last' = IF size > maxSize
                 THEN Result("data", k.id, 413, FALSE, "Payload too large",
                             <<>>, <<>>, -1, size, 0)
                 ELSE Result("data", k.id, 0, TRUE, "", <<>>, <<>>, -1, size, 0)
      /\ UNCHANGED <<entries, cleanupTimer, now, ledger, owed, race>>

\* the 'end' handler without its res.writableEnded test
OnEnd_noGuard(c) ==
  LET k == conn[c]
  IN  /\ k.active
      /\ conn' = [conn EXCEPT ![c] = Closed(k)]
      /\ StorePut("put", k.id, concat(k.chunks), k.sent, 201, 409)
      /\ UNCHANGED <<cleanupTimer, now>>

\* req.on('end')
OnEnd(c) ==
  LET k == conn[c]
  IN  /\ k.active
      /\ conn' = [conn EXCEPT ![c] = Closed(k)]
      /\ IF k.writableEnded
         THEN /\ last' = Result("end", k.id, 0, FALSE, "", <<>>, <<>>, -1, 0, 0)
              /\ UNCHANGED <<entries, ledger, owed, race>>
         ELSE StorePut("put", k.id, concat(k.chunks), k.sent, 201, 409)
      /\ UNCHANGED <<cleanupTimer, now>>

\* the 'error' handler without its res.writableEnded test
OnError_noGuard(c) ==
  LET k == conn[c]
  IN  /\ k.active
      /\ conn' = [conn EXCEPT ![c] = Closed(k)]
      /\ last' = Result("error", k.id, 500, FALSE, "Upload failed",
                        <<>>, <<>>, -1, k.size, 0)
      /\ UNCHANGED <<entries, cleanupTimer, now, ledger, owed, race>>

\* an 'error' handler that stores what has arrived so far
OnError_store(c) ==
  LET k == conn[c]
  IN  /\ k.active
      /\ conn' = [conn EXCEPT ![c] = Closed(k)]
      /\ StorePut("error", k.id, concat(k.chunks), k.sent, 500, 500)
      /\ UNCHANGED <<cleanupTimer, now>>

\* req.on('error')
OnError(c) ==
  LET k == conn[c]
  IN  /\ k.active
      /\ conn' = [conn EXCEPT ![c] = Closed(k)]
      /\ last' = IF k.writableEnded
                 THEN Result("error", k.id, 0, FALSE, "", <<>>, <<>>, -1, k.size, 0)
                 ELSE Result("error", k.id, 500, FALSE, "Upload failed",
                             <<>>, <<>>, -1, k.size, 0)
      /\ UNCHANGED <<entries, cleanupTimer, now, ledger, owed, race>>

\* the one response of handleGet for an absent id
NotFound(id) ==
  Result("get", id, 404, FALSE, "Transfer not found or already retrieved",
         <<>>, <<>>, -1, 0, 0)

\* handleRequest -> handleGet (store.get and its response)
HandleGet(id) ==
  LET r == get(entries, id)
  IN  /\ entries' = r.entries
      /\ last' = IF r.found
                 THEN Result("get", id, 200, TRUE, "", r.entry.data, r.entry.sent,
                             now - r.entry.createdAt, Len(r.entry.data), 0)
                 ELSE NotFound(id)
      /\ ledger' = [i \in Ids |->
                      IF i # id THEN ledger[i]
                      ELSE IF r.found THEN [ledger[i] EXCEPT !.reads = @ + 1]
                      ELSE IF ledger[i].put THEN [ledger[i] EXCEPT !.missed = TRUE]
                      ELSE ledger[i]]
      /\ race' = [i \in Ids |->
                    IF i \in Gone(entries, r.entries) THEN NoRace ELSE race[i]]
      /\ owed' = owed - (IF r.found THEN 1 ELSE 0)
      /\ UNCHANGED <<cleanupTimer, now, conn>>

\* handleRequest -> handleDelete (store.delete and its response)
HandleDelete(id) ==
  LET r == delete(entries, id)
  IN  /\ entries' = r.entries
      /\ last' = IF r.removed
                 THEN Result("delete", id, 200, TRUE, "", <<>>, <<>>,
                             AgeOrNone(id), 0, 0)
                 ELSE Result("delete", id, 404, FALSE, "Transfer not found",
                             <<>>, <<>>, -1, 0, 0)
      /\ Removed(r.entries, FALSE, IF r.removed THEN 1 ELSE 0)
      /\ UNCHANGED <<cleanupTimer, now, conn>>

\* the characters of /[a-f0-9]/
HexChars == {"a", "b", "c", "d", "e", "f",
             "0", "1", "2", "3", "4", "5", "6", "7", "8", "9"}

\* the string made of the characters cs
RECURSIVE join(_)
join(cs) == IF cs = <<>> THEN "" ELSE Head(cs) \o join(Tail(cs))

\* request paths: /transfer/<id> with the characters of <id>, /health, and a
\* path of neither form
Path(root, id) == [root |-> root, id |-> id]
Paths == {Path("transfer", <<"a", "1">>), Path("transfer", <<"b", "2">>),
          Path("transfer", <<"A", "1">>), Path("transfer", <<"g", "2">>),
          Path("health", <<>>), Path("other", <<>>)}
Methods == {"GET", "PUT", "DELETE", "OPTIONS", "POST"}

\* the regular expression with the i flag
match_ignoreCase(path) ==
  /\ path.root = "transfer"
  /\ Len(path.id) >= 1
  /\ \A k \in 1..Len(path.id) : path.id[k] \in HexChars \cup {"A", "B", "C", "D", "E", "F"}

\* path.match(/^\/transfer\/([a-f0-9]+)$/)
match(path) ==
  /\ path.root = "transfer"
  /\ Len(path.id) >= 1
  /\ \A k \in 1..Len(path.id) : path.id[k] \in HexChars

\* a response written by handleRequest itself
Respond(method, id, status, ok, error, len) ==
  /\ last' = Result(method, id, status, ok, error, <<>>, <<>>, -1, len, 0)
  /\ UNCHANGED <<entries, cleanupTimer, now, conn, ledger, owed, race>>

\* handleRequest: a request with this method and path; a PUT body arrives on
\* connection c
handleRequest(method, path, c) ==
  LET id == join(path.id)
  IN  IF method = "OPTIONS"
      THEN Respond(method, id, 204, TRUE, "", 0)
      ELSE IF path.root = "health" /\ method = "GET"
      THEN Respond(method, id, 200, TRUE, "", count(entries))
      ELSE IF ~match(path)
      THEN Respond(method, id, 404, FALSE, "Not found", 0)
      ELSE IF method = "PUT" THEN HandlePut(c, id)
      ELSE IF method = "GET" THEN HandleGet(id)
      ELSE IF method = "DELETE" THEN HandleDelete(id)
      ELSE Respond(method, id, 405, FALSE, "Method not allowed", 0)

\* one run of cleanup() and the history of what it returned
Sweep(op) ==
  LET r == cleanup(entries, now)
  IN  /\ entries' = r.entries
      /\ last' = Result(op, "", 0, TRUE, "", <<>>, <<>>, -1, 0, r.removed)
      /\ Removed(r.entries, FALSE, r.removed)
      /\ UNCHANGED <<cleanupTimer, now, conn>>

\* the setInterval callback of the constructor
TimerCleanup == cleanupTimer /\ Sweep("timer")

\* store.cleanup() called directly
CallCleanup == Sweep("cleanup")

\* store.put(id, data) called directly, with any payload
CallPut(id, data) ==
  /\ StorePut("call", id, data, data, 0, 0)
  /\ UNCHANGED <<cleanupTimer, now, conn>>

\* RelayServer.stop -> store.destroy()
Stop ==
  LET r == destroy(entries, cleanupTimer)
  IN  /\ entries' = r.entries
      /\ cleanupTimer' = r.cleanupTimer
      /\ last' = Result("destroy", "", 0, cleanupTimer, "", <<>>, <<>>, -1, 0,
                        Cardinality(Gone(entries, r.entries)))
      /\ Removed(r.entries, FALSE, Cardinality(Gone(entries, r.entries)))
      /\ UNCHANGED <<now, conn>>

\* Date.now() advances
Tick ==
  /\ now < MaxTime
  /\ now' = now + 1
  /\ last' = Quiet("tick")
  /\ UNCHANGED <<entries, cleanupTimer, conn, ledger, owed, race>>

\* The store under its direct callers, the single-callback requests (GET,
\* DELETE), the cleanup interval and the clock.
Next ==
  \/ \E id \in Ids, data \in Payloads : CallPut(id, data)
  \/ \E id \in Ids : HandleGet(id)
  \/ \E id \in Ids : HandleDelete(id)
  \/ TimerCleanup
  \/ CallCleanup
  \/ Stop
  \/ Tick

Spec == Init /\ [][Next]_vars

\* the interval keeps firing for as long as the handle is held
\* (setInterval, store.ts:27): the timer callback is not postponed for ever
SpecLive == Init /\ [][Next]_vars /\ WF_vars(TimerCleanup)

\* The server under streaming PUT uploads whose events interleave with each
\* other and with GET and DELETE requests.
NextUpload ==
  \/ \E c \in Conns, id \in Ids : HandlePut(c, id)
  \/ \E c \in Conns : \E n \in ChunkLens(c) : OnData(c, n)
  \/ \E c \in Conns : OnEnd(c)
  \/ \E c \in Conns : OnError(c)
  \/ \E id \in Ids : HandleGet(id)
  \/ \E id \in Ids : HandleDelete(id)

SpecUpload == Init /\ [][NextUpload]_vars

\* Uploads for one identifier that race each other while the clock runs.
RaceIds == {"a1"}
NextRace ==
  \/ \E c \in Conns, id \in RaceIds : HandlePut(c, id)
  \/ \E c \in Conns : \E n \in ChunkLens(c) : OnData(c, n)
  \/ \E c \in Conns : OnEnd(c)
  \/ \E id \in RaceIds : HandleGet(id)
  \/ Tick

SpecRace == Init /\ [][NextRace]_vars

\* the relay behind its router: every request goes through handleRequest
RelayConns == {1}
NextRelay ==
  \/ \E method \in Methods, path \in Paths, c \in RelayConns :
       handleRequest(method, path, c)
  \/ \E c \in RelayConns : \E n \in ChunkLens(c) : OnData(c, n)
  \/ \E c \in RelayConns : OnEnd(c)
  \/ \E c \in RelayConns : OnError(c)

SpecRelay == Init /\ [][NextRelay]_vars

\* ------------------------------------------------------------------ claims
PutOps == {"put", "call"}
SweepOps == {"timer", "cleanup"}

\* C1: the payload stored by one accepted put is returned by at most one get;
\* once a get has returned it the entry is gone, so later gets find nothing
\* until a new put is accepted.
C1_NoEntryReadTwice ==
  /\ \A i \in Ids : ledger[i].reads <= 1
  /\ \A i \in Ids : ledger[i].reads = 1 => i \notin DOMAIN entries
  /\ (last.op = "get" /\ last.ok) => last.id \notin DOMAIN entries

\* a get that came after the get that returned the entry answered null
C1_Witness ==
  /\ last.op = "get"
  /\ ~last.ok
  /\ ledger[last.id].reads = 1

\* C2: of the gets for one id after one accepted put, with no delete, sweep
\* or destroy of that entry, exactly one returns the entry: a get answers
\* null only when another get has returned the entry, and no two gets
\* return it.
C2_ExactlyOneGetWins ==
  \A i \in Ids :
    ledger[i].removals = 0 =>
      /\ ledger[i].reads <= 1
      /\ ledger[i].missed => ledger[i].reads = 1

\* one get was answered 200 and the other 404
C2_Witness ==
  \E i \in Ids :
    /\ ledger[i].missed
    /\ ledger[i].reads = 1
    /\ ledger[i].removals = 0
    /\ last = NotFound(i)

\* C3: of the PUT uploads for one id that complete within the cap while no
\* entry of that id is removed, exactly one is accepted (201) and every
\* other one is rejected as duplicate (409): never two acceptances, never a
\* rejection without an acceptance.
C3_ExactlyOnePutWins ==
  \A i \in Ids :
    /\ race[i].acc <= 1
    /\ race[i].dup => race[i].acc = 1
    /\ (last.op = "put" /\ last.id = i) =>
         /\ last.status = 201 => race[i] = [acc |-> 1, dup |-> FALSE]
         /\ last.status = 409 => race[i] = [acc |-> 1, dup |-> TRUE]

\* the second of two uploads whose bytes came over different connections is
\* answered 409 while the first one's body is stored
C3_Witness ==
  /\ last.op = "put"
  /\ last.status = 409
  /\ race[last.id] = [acc |-> 1, dup |-> TRUE]
  /\ last.id \in DOMAIN entries
  /\ Len(entries[last.id].sent) = maxSize
  /\ Len(last.sent) = maxSize
  /\ entries[last.id].sent # last.sent

\* C4: get never returns an entry whose age has reached the TTL.
C4_GetNeverReturnsExpired ==
  (last.op = "get" /\ last.ok) => last.age < ttlMs

\* C5: a put rejected as duplicate leaves the store unchanged, and a get
\* returns the data the store held for the id before it.
C5_DuplicateLeavesStore ==
  [][ /\ (last'.op \in PutOps /\ last'.error = "exists") => entries' = entries
      /\ (last'.op = "get" /\ last'.ok)
           => /\ last'.id \in DOMAIN entries
              /\ last'.body = entries[last'.id].data
              /\ last'.sent = entries[last'.id].sent ]_vars

\* a payload other than the stored one was rejected as duplicate
C5_Witness ==
  /\ last.op \in PutOps
  /\ last.error = "exists"
  /\ last.id \in DOMAIN entries
  /\ entries[last.id].sent # last.sent
  /\ entries[last.id].data = entries[last.id].sent

\* C6: a put within the cap is rejected as duplicate only if an entry for
\* the id exists and its age is below the TTL.
C6_DuplicateOnlyIfLive ==
  (last.op \in PutOps /\ last.len <= maxSize /\ last.error = "exists")
    => (last.age >= 0 /\ last.age < ttlMs)

\* C7: for an absent id put accepts the payload iff its length is <= maxSize,
\* and every entry held has length <= maxSize.
C7_SizeCap ==
  /\ \A i \in DOMAIN entries : Len(entries[i].data) <= maxSize
  /\ (last.op \in PutOps /\ last.age = -1) => (last.ok <=> last.len <= maxSize)
  /\ (last.op \in PutOps /\ last.len > maxSize) => last.error = "too large"

\* maxSize + 1 bytes were rejected while an entry of exactly maxSize is held
C7_Witness ==
  /\ last.op \in PutOps
  /\ ~last.ok
  /\ last.age = -1
  /\ last.len = maxSize + 1
  /\ \E i \in DOMAIN entries : Len(entries[i].data) = maxSize

\* C8: the body of a 200 is exactly the bytes of the accepted upload, in the
\* order its chunks arrived, whatever other uploads were received meanwhile.
C8_RetrieveExactBytes ==
  /\ (last.op = "get" /\ last.status = 200) => last.body = last.sent
  /\ \A i \in DOMAIN entries : entries[i].data = entries[i].sent

\* a body of several chunks is retrieved while another upload is mid-stream
C8_Witness ==
  /\ last.op = "get"
  /\ last.status = 200
  /\ Len(last.body) = maxSize
  /\ \E c \in Conns : conn[c].active /\ conn[c].size > 0 /\ ~conn[c].writableEnded

\* C9 (as stated): after a sweep no entry whose age is >= TTL is left.
C9_SweepRemovesAtTtl ==
  last.op \in SweepOps => \A i \in DOMAIN entries : AgeOf(i) < ttlMs

\* C9 (amended): a sweep removes exactly the entries whose age is > TTL,
\* leaves the entries whose age is <= TTL as they were, and returns the
\* number of entries it removed.
C9_SweepRemovesOlderThanTtl ==
  [][ last'.op \in SweepOps =>
        /\ DOMAIN entries' = {i \in DOMAIN entries : AgeOf(i) <= ttlMs}
        /\ \A i \in DOMAIN entries' : entries'[i] = entries[i]
        /\ last'.removed = Cardinality(DOMAIN entries \ DOMAIN entries') ]_vars

\* a sweep removed an entry and kept one whose age is exactly the TTL
C9_Witness ==
  /\ last.op \in SweepOps
  /\ last.removed >= 1
  /\ \E i \in DOMAIN entries : AgeOf(i) = ttlMs

\* C10: every stored entry leaves the store through exactly one of a get
\* that returns it, a delete that returns true, a sweep that counts it, or
\* destroy; a sweep never counts an entry a get returned; the successful
\* gets, true deletes and sweep counts never add up to more than the
\* accepted puts (owed is never negative), and with the entries destroy
\* cleared they account for every accepted put that is not in the store.
C10_SweepSafe ==
  /\ \A i \in Ids : ledger[i].reads + ledger[i].removals <= 1
  /\ \A i \in Ids :
       i \in DOMAIN entries
         <=> (ledger[i].put /\ ledger[i].reads + ledger[i].removals = 0)
  /\ owed >= 0
  /\ owed = Live

\* a sweep has counted one entry after a get had returned another
C10_Witness ==
  /\ last.op \in SweepOps
  /\ last.removed = 1
  /\ \E i, j \in Ids : ledger[i].reads = 1 /\ ledger[j].removals = 1

\* C11: delete removes the entry of the id whatever its age and leaves the
\* other entries alone; it returns true (DELETE answers 200) exactly when the
\* id held an entry, false (404) otherwise; a GET for the id right after is
\* answered 404.
C11_DeleteRemoves ==
  [][ /\ last'.op = "delete" =>
           /\ last'.ok <=> last'.id \in DOMAIN entries
           /\ last'.status = IF last'.id \in DOMAIN entries THEN 200 ELSE 404
           /\ entries' = Without(entries, {last'.id})
      /\ (last.op = "delete" /\ last'.op = "get" /\ last'.id = last.id)
           => last'.status = 404 ]_vars

\* an entry older than the TTL was deleted, answered 200
C11_Witness ==
  /\ last.op = "delete"
  /\ last.status = 200
  /\ last.age > ttlMs
  /\ last.id \notin DOMAIN entries

\* C12: once the entry of an id is gone (returned by get, deleted, swept or
\* cleared), a put for the id within the cap is accepted and stores the
\* payload with the current time, as for an id never used.
C12_ReusableOnceGone ==
  [][ (last'.op \in PutOps /\ last'.len <= maxSize
         /\ (WasGone(last'.id) \/ ~ledger[last'.id].put))
        => /\ last'.ok
           /\ last'.id \in DOMAIN entries'
           /\ entries'[last'.id] =
                [data |-> last'.sent, createdAt |-> now, sent |-> last'.sent]
           /\ ledger'[last'.id] = [NoPut EXCEPT !.put = TRUE]
           /\ last'.again = ledger[last'.id].put ]_vars

\* a put was accepted for an id whose earlier entry was gone
C12_Witness ==
  /\ last.op \in PutOps
  /\ last.ok
  /\ last.again
  /\ last.id \in DOMAIN entries

\* C13: after destroy the store holds no entry and no timer; a destroy that
\* follows a destroy changes nothing in the store.
C13_DestroyIdempotent ==
  [][ /\ last'.op = "destroy" => (entries' = NoEntries /\ ~cleanupTimer')
      /\ (last.op = "destroy" /\ last'.op = "destroy")
           => (entries' = entries /\ cleanupTimer' = cleanupTimer
               /\ last'.removed = 0) ]_vars

\* destroy was called on a store whose timer was already cleared
C13_Witness ==
  /\ last.op = "destroy"
  /\ ~last.ok
  /\ entries = NoEntries
  /\ ~cleanupTimer

\* C14: the store starts with the timer held; destroy releases it, it is
\* never held again, and no timer-driven cleanup runs once it is released.
C14_TimerStoppable ==
  [][ /\ last'.op = "destroy" => ~cleanupTimer'
      /\ ~cleanupTimer => (~cleanupTimer' /\ last'.op # "timer")
      /\ last.op = "new" => cleanupTimer ]_vars

\* an entry older than the TTL stays in a destroyed store: no timer sweeps it
C14_Witness ==
  /\ ~cleanupTimer
  /\ \E i \in DOMAIN entries : AgeOf(i) > ttlMs

\* C15: while the timer is held and keeps firing, an entry older than the
\* TTL does not stay for ever: it leaves the store (the sweep removes it
\* unless a get or a delete took it first) or the store is shut down.
C15_ExpiredEventuallySwept ==
  \A i \in Ids :
    (cleanupTimer /\ i \in DOMAIN entries /\ AgeOf(i) > ttlMs)
      ~> (i \notin DOMAIN entries \/ ~cleanupTimer)

\* the timer-driven sweep removed an entry
C15_Witness ==
  /\ last.op = "timer"
  /\ last.removed >= 1
  /\ cleanupTimer

\* C16: an upload is answered 413 by the chunk that takes its size over the
\* cap and by no other chunk; an upload that reaches store.put is within the
\* cap and is answered 409 exactly when the id held an entry and 201
\* otherwise, the 201 for a stored body of the length received.
C16_PutStatus ==
  /\ last.op = "data" => (last.status = 413 <=> last.len > maxSize)
  /\ last.op = "put" =>
       /\ Len(last.sent) <= maxSize
       /\ last.len = Len(last.sent)
       /\ last.status = IF last.age >= 0 THEN 409 ELSE 201
       /\ last.status = 409 => last.error = "exists"
       /\ last.status = 201 =>
            /\ last.id \in DOMAIN entries
            /\ Len(entries[last.id].data) = last.len

\* an oversized upload to an id that holds an entry was answered 413
C16_Witness ==
  /\ last.op = "data"
  /\ last.status = 413
  /\ last.id \in DOMAIN entries

\* bytes buffered for an upload
Buffered(k) == Len(concat(k.chunks))

\* C17: the bytes buffered for an upload never exceed maxSize; the response
\* is ended (413) exactly when the running size has passed the cap, and an
\* upload so ended finishes without a call of store.put.
C17_StreamingCap ==
  [][ /\ \A c \in Conns :
           /\ Buffered(conn'[c]) <= maxSize
           /\ conn'[c].writableEnded <=> conn'[c].size > maxSize
           /\ (conn'[c].writableEnded /\ ~conn[c].writableEnded)
                => (last'.status = 413 /\ Buffered(conn'[c]) = Buffered(conn[c]))
      /\ \A c \in Conns :
           (conn[c].writableEnded /\ ~conn'[c].active)
             => (last'.op \in {"end", "error"} /\ entries' = entries
                 /\ owed' = owed) ]_vars

\* an upload answered 413 has ended and nothing was stored under its id
C17_Witness ==
  /\ last.op = "end"
  /\ last.id \notin DOMAIN entries

\* C18: an 'error' on an upload leaves the store as it was; an entry enters
\* the store only from the 'end' of an upload whose response was not ended,
\* with all the bytes received.
C18_IncompleteNotStored ==
  [][ /\ last'.op = "error" => (entries' = entries /\ owed' = owed)
      /\ \A i \in DOMAIN entries' \ DOMAIN entries :
           /\ last'.op = "put"
           /\ \E c \in Conns :
                /\ conn[c].active /\ ~conn[c].writableEnded /\ conn[c].id = i
                /\ ~conn'[c].active
                /\ entries'[i].data = conn[c].sent ]_vars

\* an upload failed after part of its body had arrived, and its id holds
\* no entry
C18_Witness ==
  /\ last.op = "error"
  /\ last.status = 500
  /\ last.len > 0
  /\ last.id \notin DOMAIN entries

\* identifiers of the request paths that are not all lowercase hex
BadIds == {"A1", "g2"}

\* C19: a PUT, GET or DELETE whose identifier is not made only of lowercase
\* hex characters is answered 404 by the router and changes neither the store
\* nor any upload; no such identifier is ever a key of the store or the id of
\* an upload.
C19_BadIdNotFound ==
  [][ /\ last'.id \in BadIds =>
           /\ last'.op \in Methods
           /\ last'.op \in {"PUT", "GET", "DELETE"} =>
                /\ last'.status = 404
                /\ last'.error = "Not found"
                /\ UNCHANGED <<entries, conn, ledger, owed>>
      /\ DOMAIN entries' \cap BadIds = {}
      /\ \A c \in Conns : conn'[c].id \notin BadIds ]_vars

\* a request for an identifier with an uppercase letter was answered 404
\* while the store held an entry
C19_Witness ==
  /\ last.op \in {"PUT", "GET", "DELETE"}
  /\ last.id = "A1"
  /\ last.status = 404
  /\ entries # NoEntries

\* C20: a GET for an id never stored, for one already retrieved and for one
\* whose entry has reached the TTL is answered with the same 404.
C20_NotFoundConflated ==
  [][ (/\ last'.op = "get"
       /\ \/ ~ledger[last'.id].put
          \/ ledger[last'.id].reads >= 1
          \/ (last'.id \in DOMAIN entries /\ AgeOf(last'.id) >= ttlMs))
        => last' = NotFound(last'.id) ]_vars

---------------------------------------------------------------------------
\* codes.ts: code texts are sequences of characters

Lower == {"a", "b", "c", "d", "e", "f", "g", "h", "i", "j", "k", "l", "m",
          "n", "o", "p", "q", "r", "s", "t", "u", "v", "w", "x", "y", "z"}
Digits == <<"0", "1", "2", "3", "4", "5", "6", "7", "8", "9">>
DigitChars == {Digits[k] : k \in 1..10}
DigitVal(ch) == (CHOOSE k \in 1..10 : Digits[k] = ch) - 1

\* the first entries of WORDS (500 distinct words of lowercase letters)
acid == <<"a", "c", "i", "d">>
acorn == <<"a", "c", "o", "r", "n">>
acre == <<"a", "c", "r", "e">>
WORDS == <<acid, acorn, acre>>
Dictionary == {WORDS[k] : k \in 1..Len(WORDS)}

\* the parts of a text between its dashes
RECURSIVE split(_)
split(cs) ==
  IF cs = <<>> THEN << <<>> >>
  ELSE LET r == split(Tail(cs))
       IN  IF Head(cs) = "-" THEN << <<>> >> \o r
           ELSE << <<Head(cs)>> \o Head(r) >> \o Tail(r)

AllIn(cs, set) == \A k \in 1..Len(cs) : cs[k] \in set

\* parseInt(digits, 10)
RECURSIVE parseInt(_)
parseInt(ds) ==
  IF ds = <<>> THEN 0
  ELSE 10 * parseInt(SubSeq(ds, 1, Len(ds) - 1)) + DigitVal(ds[Len(ds)])

\* `${num}`: the decimal digits of a positive integer
RECURSIVE toString(_)
toString(n) ==
  IF n < 10 THEN <<Digits[n + 1]>>
  ELSE toString(n \div 10) \o <<Digits[(n % 10) + 1]>>

\* the null result of parseCode
NoCode == [ok |-> FALSE, number |-> 0, word1 |-> <<>>, word2 |-> <<>>]

\* code.match(/^(\d+)-([a-z]+)-([a-z]+)$/): three non-empty parts between
\* two dashes, digits first, then two words of lowercase letters
matchCode(code) ==
  LET parts == split(code)
  IN  /\ Len(parts) = 3
      /\ \A k \in 1..3 : parts[k] # <<>>
      /\ AllIn(parts[1], DigitChars)
      /\ AllIn(parts[2], Lower)
      /\ AllIn(parts[3], Lower)

parseCode(code) ==
  IF ~matchCode(code) THEN NoCode
  ELSE LET parts == split(code)
           num == parseInt(parts[1])
       IN  IF num < 1 \/ num > 999 THEN NoCode
           ELSE [ok |-> TRUE, number |-> num,
                 word1 |-> parts[2], word2 |-> parts[3]]

isValidCode(code) == parseCode(code).ok

\* `${num}-${w1}-${w2}`
CodeText(num, w1, w2) == num \o <<"-">> \o w1 \o <<"-">> \o w2

\* the texts handed to parseCode: every combination of these numeric parts
\* and words, and texts of other shapes
NumTexts == {<<"0">>, <<"1">>, <<"0", "7">>, <<"9", "9", "9">>, <<"1", "0", "0", "0">>, <<"0", "0", "0", "1">>, <<"0", "9", "9", "9">>, <<"a", "b", "c">>, <<"1", "a">>, <<>>}
WordTexts == {acid, acorn, <<"a">>, <<"A">>, <<>>}
OtherTexts == {<<>>, <<"0", "-", "a", "-", "b">>,
               <<"1", "0", "0", "0", "-", "a", "-", "b">>,
               <<"a", "b", "c", "-", "a", "-", "b">>,
               <<"1", "-", "o", "n", "l", "y", "o", "n", "e">>,
               <<"1", "-", "a", "l", "p", "h", "a", "-", "b", "e", "t", "a">>,
               <<"9", "9", "9", "-", "z", "o", "o", "-", "a", "r", "k">>,
               <<"1", "-", "a", "-", "b", "-", "a">>,
               <<"1", "-", "a", "-", "b", "\n">>,
               <<" ", "1", "-", "a", "-", "b">>,
               <<"1", "-", "-", "a">>,
               <<"1", "_", "a", "_", "b">>}
CodeTexts ==
  {CodeText(n, w1, w2) : n \in NumTexts, w1 \in WordTexts, w2 \in WordTexts}
    \cup OtherTexts

\* the values crypto.randomInt(1, 1000) is drawn from here
Nums == {1, 9, 10, 42, 99, 100, 999}

\* a call of parseCode (not while generateCode runs: both are synchronous)
ParseCode(code) ==
  LET r == parseCode(code)
  IN  /\ last.op # "sample"
      /\ last' = [Result("parseCode", "", 0, r.ok, "", <<>>, <<>>, -1, r.number, 0)
                    EXCEPT !.code = code, !.value = <<r.word1, r.word2>>]
      /\ UNCHANGED <<entries, cleanupTimer, now, conn, ledger, owed, race>>

\* generateCode in its loop: num, w1 and w2 as drawn so far
Sampled(num, i1, i2) ==
  /\ last' = [Result("sample", "", 0, TRUE, "", <<>>, <<>>, -1, num, 0)
                EXCEPT !.value = <<WORDS[i1], WORDS[i2]>>]
  /\ UNCHANGED <<entries, cleanupTimer, now, conn, ledger, owed, race>>

\* generateCode is called: the three draws before the loop
GenerateCode(num, i1, i2) ==
  /\ last.op # "sample"
  /\ Sampled(num, i1, i2)

\* one turn of while (w2 === w1): w2 is drawn again
Resample(i2) ==
  /\ last.op = "sample"
  /\ last.value[2] = last.value[1]
  /\ last' = [last EXCEPT !.value = <<@[1], WORDS[i2]>>, !.again = TRUE]
  /\ UNCHANGED <<entries, cleanupTimer, now, conn, ledger, owed, race>>

\* a turn of the loop that draws another word than w1
ResampleDistinct ==
  /\ last.op = "sample"
  /\ \E i2 \in 1..Len(WORDS) : WORDS[i2] # last.value[1] /\ Resample(i2)

\* generateCode that returns without the while loop
Return_noLoop ==
  /\ last.op = "sample"
  /\ last' = [Result("generateCode", "", 0, TRUE, "", <<>>, <<>>, -1, last.len, 0)
                EXCEPT !.again = last.again,
                       !.value = CodeText(toString(last.len),
                                          last.value[1], last.value[2])]
  /\ UNCHANGED <<entries, cleanupTimer, now, conn, ledger, owed, race>>

\* the loop is left and generateCode returns `${num}-${w1}-${w2}`
Return ==
  /\ last.op = "sample"
  /\ last.value[2] # last.value[1]
  /\ last' = [Result("generateCode", "", 0, TRUE, "", <<>>, <<>>, -1, last.len, 0)
                EXCEPT !.again = last.again,
                       !.value = CodeText(toString(last.len),
                                          last.value[1], last.value[2])]
  /\ UNCHANGED <<entries, cleanupTimer, now, conn, ledger, owed, race>>

NextCodes ==
  \/ \E code \in CodeTexts : ParseCode(code)
  \/ \E num \in Nums, i1 \in 1..Len(WORDS), i2 \in 1..Len(WORDS) :
       GenerateCode(num, i1, i2)
  \/ \E i2 \in 1..Len(WORDS) : Resample(i2)
  \/ Return

SpecCodes == Init /\ [][NextCodes]_vars

\* crypto.randomInt does not return the index of w1 for ever, and a loop
\* that can be left is left
SpecCodesLive ==
  Init /\ [][NextCodes]_vars /\ WF_vars(ResampleDistinct) /\ WF_vars(Return)

\* the code format of the specification: one to three digits, a value in
\* [1, 999], two words of lowercase letters
InFormat(code) ==
  /\ matchCode(code)
  /\ Len(split(code)[1]) <= 3
  /\ parseInt(split(code)[1]) \in 1..999

\* C27: parseCode accepts exactly the texts of the form digits-word-word with
\* one to three digits and a value in [1, 999], and returns null for every
\* other text.
C27_ParseCodeFormat ==
  last.op = "parseCode" =>
    /\ last.ok <=> InFormat(last.code)
    /\ last.ok => /\ last.len = parseInt(split(last.code)[1])
                  /\ last.value = <<split(last.code)[2], split(last.code)[3]>>

\* C29: generateCode returns, and what it returns is number-word-word with
\* the number in [1, 999] without leading zeros and two different words of
\* the dictionary, which parseCode accepts.
C29_GeneratedCodeValid ==
  /\ [](last.op = "generateCode" =>
          LET r == parseCode(last.value)
          IN  /\ r.ok
              /\ r.number \in 1..999
              /\ Head(last.value) # "0"
              /\ last.value = CodeText(toString(r.number), r.word1, r.word2)
              /\ r.word1 \in Dictionary /\ r.word2 \in Dictionary
              /\ r.word1 # r.word2)
  /\ (last.op = "sample") ~> (last.op = "generateCode")

\* a code was returned after w2 had collided with w1 and was drawn again
C29_Witness ==
  /\ last.op = "generateCode"
  /\ last.again
  /\ parseCode(last.value).ok

---------------------------------------------------------------------------
\* crypto.ts: keys, nonces, ciphertext and tags are symbolic; every byte of
\* an encrypted blob is a record [t, v] whose t tells what v is

ENCRYPTION_SALT == "wormhole-encryption-v1"
RELAY_SALT == "wormhole-relay-key-v1"
KEY_LENGTH == 32
IV_LENGTH == 12
AUTH_TAG_LENGTH == 16

\* pbkdf2Sync(password, salt, PBKDF2_ITERATIONS, KEY_LENGTH, 'sha256'): a key
\* that only the same password and salt give (the derivation is taken to be
\* free of collisions)
pbkdf2Sync(password, salt) == [salt |-> salt, code |-> password]

deriveEncryptionKey(code) == pbkdf2Sync(code, ENCRYPTION_SALT)

Alphabet == <<"a", "b", "c", "d", "e", "f", "g", "h", "i", "j", "k", "l", "m",
              "n", "o", "p", "q", "r", "s", "t", "u", "v", "w", "x", "y", "z">>
HexDigits == <<"0", "1", "2", "3", "4", "5", "6", "7", "8", "9",
               "a", "b", "c", "d", "e", "f">>

\* the character code of a character of a code text
CharCode(ch) ==
  IF ch \in DigitChars THEN 48 + DigitVal(ch)
  ELSE IF ch = "-" THEN 45
  ELSE IF ch \in Lower THEN 96 + (CHOOSE k \in 1..26 : Alphabet[k] = ch)
  ELSE 63

\* key.toString('hex') of one byte
toHex(n) == <<HexDigits[(n \div 16) + 1], HexDigits[(n % 16) + 1]>>

\* the KEY_LENGTH bytes of a derived key, written out: bytes that differ
\* whenever the salt or the code (of up to KEY_LENGTH - 1 characters) differ
SaltByte(salt) == IF salt = ENCRYPTION_SALT THEN 1 ELSE 2
KeyBytes(key) ==
  [j \in 1..KEY_LENGTH |->
     IF j = 1 THEN SaltByte(key.salt)
     ELSE IF j - 1 <= Len(key.code) THEN CharCode(key.code[j - 1])
     ELSE 0]

\* Buffer.toString('hex')
hex(bytes) ==
  [j \in 1..(2 * Len(bytes)) |-> toHex(bytes[(j + 1) \div 2])[2 - (j % 2)]]

\* deriveRelayKey with the salt of the encryption key
deriveRelayKey_sameSalt(code) == hex(KeyBytes(pbkdf2Sync(code, ENCRYPTION_SALT)))

\* pbkdf2Sync(code, RELAY_SALT, ...).toString('hex'): the lowercase hex
\* text of the key derived under the relay salt
deriveRelayKey(code) == hex(KeyBytes(pbkdf2Sync(code, RELAY_SALT)))


\* crypto.randomBytes(IV_LENGTH), the r-th value it can return
RandomIv(r) == [j \in 1..IV_LENGTH |-> [t |-> "iv", v |-> r]]

\* the j-th byte of cipher.update(plaintext) under this key and iv
CipherByte(key, iv, j, x) ==
  [t |-> "ct", v |-> [key |-> key, iv |-> iv, j |-> j, x |-> x]]

\* cipher.getAuthTag(): bound to the key, the iv and the whole ciphertext
AuthTag(key, iv, ciphertext) ==
  [j \in 1..AUTH_TAG_LENGTH |->
     [t |-> "tag", v |-> [key |-> key, iv |-> iv, ct |-> ciphertext, j |-> j]]]

\* encrypt: iv (12) || ciphertext || authTag (16)
encrypt(plaintext, key, iv) ==
  LET encrypted == [j \in 1..Len(plaintext) |-> CipherByte(key, iv, j, plaintext[j])]
  IN  iv \o encrypted \o AuthTag(key, iv, encrypted)

TooShort == "Invalid encrypted blob: too short"
AuthFailed == "Unsupported state or unable to authenticate data"

\* decrypt that returns what decipher.update gives without the tag test of
\* decipher.final()
decrypt_unverified(blob, key) ==
  IF Len(blob) < IV_LENGTH + AUTH_TAG_LENGTH
  THEN [ok |-> FALSE, error |-> TooShort, data |-> <<>>]
  ELSE LET ciphertext == SubSeq(blob, IV_LENGTH + 1, Len(blob) - AUTH_TAG_LENGTH)
       IN  [ok |-> TRUE, error |-> "",
            data |-> [j \in 1..Len(ciphertext) |->
                        IF ciphertext[j].t = "ct" THEN ciphertext[j].v.x ELSE 0]]

\* decrypt that takes the ciphertext from one byte too far
decrypt_offByOne(blob, key) ==
  IF Len(blob) < IV_LENGTH + AUTH_TAG_LENGTH
  THEN [ok |-> FALSE, error |-> TooShort, data |-> <<>>]
  ELSE LET iv == SubSeq(blob, 1, IV_LENGTH)
           authTag == SubSeq(blob, Len(blob) - AUTH_TAG_LENGTH + 1, Len(blob))
           ciphertext == SubSeq(blob, IV_LENGTH + 2, Len(blob) - AUTH_TAG_LENGTH)
       IN  IF authTag = AuthTag(key, iv, ciphertext)
           THEN [ok |-> TRUE, error |-> "",
                 data |-> [j \in 1..Len(ciphertext) |-> ciphertext[j].v.x]]
           ELSE [ok |-> FALSE, error |-> AuthFailed, data |-> <<>>]

\* decrypt: ok = FALSE stands for the error thrown (by the length test or by
\* decipher.final() when the tag does not verify)
decrypt(blob, key) ==
  IF Len(blob) < IV_LENGTH + AUTH_TAG_LENGTH
  THEN [ok |-> FALSE, error |-> TooShort, data |-> <<>>]
  ELSE LET iv == SubSeq(blob, 1, IV_LENGTH)
           authTag == SubSeq(blob, Len(blob) - AUTH_TAG_LENGTH + 1, Len(blob))
           ciphertext == SubSeq(blob, IV_LENGTH + 1, Len(blob) - AUTH_TAG_LENGTH)
       IN  IF authTag = AuthTag(key, iv, ciphertext)
           THEN [ok |-> TRUE, error |-> "",
                 data |-> [j \in 1..Len(ciphertext) |-> ciphertext[j].v.x]]
           ELSE [ok |-> FALSE, error |-> AuthFailed, data |-> <<>>]

\* payload bytes: a line feed, the text that marks a slurp archive, the JSON
\* header of a single file, and another byte
LF == 10
SLURP == 35
HEADER == 123
Plaintexts == {<<>>, <<0>>, <<HEADER, LF, 0>>, <<SLURP, LF, 0, 0>>}

Codes == {CodeText(<<"7">>, acid, acorn), CodeText(<<"8">>, acid, acorn)}
Keys == {deriveEncryptionKey(code) : code \in Codes}
Ivs == {RandomIv(r) : r \in 1..2}

\* a byte that is none of an envelope
Junk == [t |-> "junk", v |-> 0]

\* blob with its k-th byte overwritten
Flip(blob, k) == [blob EXCEPT ![k] = Junk]

\* the first and the last byte of the iv, of the ciphertext and of the tag
Ends(blob) ==
  {1, IV_LENGTH, IV_LENGTH + 1, Len(blob) - AUTH_TAG_LENGTH,
   Len(blob) - AUTH_TAG_LENGTH + 1, Len(blob)}

\* what decrypt is handed: envelopes, envelopes with a byte of the iv, of the
\* ciphertext or of the tag overwritten, envelopes cut short, and junk
Sealed == {encrypt(p, key, iv) : p \in Plaintexts, key \in Keys, iv \in Ivs}
Altered == UNION {{Flip(b, k) : k \in Ends(b)} : b \in Sealed}
Blobs ==
  Sealed
    \cup Altered
    \cup {SubSeq(b, 1, Len(b) - 1) : b \in Sealed}
    \cup {<<>>, [j \in 1..(IV_LENGTH + AUTH_TAG_LENGTH) |-> Junk],
          [j \in 1..(IV_LENGTH + AUTH_TAG_LENGTH - 1) |-> Junk]}

\* a call of encrypt
Encrypt(plaintext, key, iv) ==
  /\ last' = [Result("encrypt", "", 0, TRUE, "", encrypt(plaintext, key, iv),
                     plaintext, -1, Len(plaintext), 0)
                EXCEPT !.value = key]
  /\ UNCHANGED <<entries, cleanupTimer, now, conn, ledger, owed, race>>

\* a call of decrypt
Decrypt(blob, key) ==
  LET r == decrypt(blob, key)
  IN  /\ last' = [Result("decrypt", "", 0, r.ok, r.error, r.data, blob, -1,
                         Len(blob), 0)
                    EXCEPT !.value = key]
      /\ UNCHANGED <<entries, cleanupTimer, now, conn, ledger, owed, race>>

\* the codes keys are derived from: two codes, a code with another spelling
\* of the number of the first, one with its words swapped, and the empty code
DeriveCodes ==
  Codes \cup {CodeText(<<"0", "7">>, acid, acorn), CodeText(<<"7">>, acorn, acid),
              <<>>}

\* a call of deriveEncryptionKey and of deriveRelayKey for one code
DeriveKeys(code) ==
  LET relayKey == deriveRelayKey(code)
  IN  /\ last' = [Result("derive", "", 0, TRUE, "", relayKey, <<>>, -1,
                         Len(relayKey), 0)
                    EXCEPT !.value = deriveEncryptionKey(code), !.code = code]
      /\ UNCHANGED <<entries, cleanupTimer, now, conn, ledger, owed, race>>

NextCrypto ==
  \/ \E p \in Plaintexts, key \in Keys, iv \in Ivs : Encrypt(p, key, iv)
  \/ \E blob \in Blobs, key \in Keys : Decrypt(blob, key)
  \/ \E code \in DeriveCodes : DeriveKeys(code)

SpecCrypto == Init /\ [][NextCrypto]_vars

\* C30: the blob that encrypt returns for p under k is the 12 bytes of the
\* nonce, then one ciphertext byte for each byte of p, then the 16 bytes of
\* the tag, len(p) + 28 bytes in all, and decrypt under k returns exactly p
\* for it; a blob that decrypt opens under k is encrypt of what it returns.
C30_RoundTrip ==
  /\ last.op = "encrypt" =>
       LET blob == last.body
           p == last.sent
           k == last.value
       IN  /\ Len(blob) = Len(p) + 28
           /\ SubSeq(blob, 1, 12) \in Ivs
           /\ \A j \in 1..Len(p) : blob[12 + j].t = "ct"
           /\ \A j \in 1..16 : blob[12 + Len(p) + j].t = "tag"
           /\ decrypt(blob, k) = [ok |-> TRUE, error |-> "", data |-> p]
  /\ (last.op = "decrypt" /\ last.ok) =>
       /\ last.len = Len(last.body) + 28
       /\ last.sent = encrypt(last.body, last.value, SubSeq(last.sent, 1, 12))

\* decrypt returned the plaintext of an envelope with a non-empty plaintext
C30_Witness ==
  /\ last.op = "decrypt"
  /\ last.ok
  /\ last.sent \in Sealed
  /\ Len(last.body) = 4

---------------------------------------------------------------------------
\* index.ts and transfer.ts: send and receive against a relay started with
\* its default options; one request of the client is one step of the relay

InvalidCode == "Invalid wormhole code"
NotFoundError == "Transfer not found or already retrieved"
NoHeader == "Invalid payload: no metadata header"
BadHeader == "SyntaxError"

\* the relay's answer to PUT /transfer/<relayKey> with this body, from
\* handleRequest to the 'end' handler
RelayPut(es, relayKey, data, sent) ==
  IF ~match(Path("transfer", relayKey))
  THEN [status |-> 404, error |-> "Not found", entries |-> es]
  ELSE IF Len(data) > DefaultMaxSize
  THEN [status |-> 413, error |-> "Payload too large", entries |-> es]
  ELSE LET r == putDefault(es, join(relayKey), data, now, sent)
       IN  [status |-> IF r.ok THEN 201 ELSE 409, error |-> r.error,
            entries |-> r.entries]

\* the relay's answer to GET /transfer/<relayKey>
RelayGet(es, relayKey) ==
  IF ~match(Path("transfer", relayKey))
  THEN [status |-> 404, body |-> <<>>, sent |-> <<>>, entries |-> es]
  ELSE LET r == get(es, join(relayKey))
       IN  [status |-> IF r.found THEN 200 ELSE 404, body |-> r.entry.data,
            sent |-> r.entry.sent, entries |-> r.entries]

\* upload that does not look at res.ok
upload_ignoreStatus(es, relayKey, data, sent) ==
  LET res == RelayPut(es, relayKey, data, sent)
  IN  [ok |-> TRUE, status |-> res.status, error |-> "", entries |-> res.entries]

\* upload: ok = FALSE stands for the error thrown
upload(es, relayKey, data, sent) ==
  LET res == RelayPut(es, relayKey, data, sent)
  IN  IF res.status \notin 200..299
      THEN [ok |-> FALSE, status |-> res.status,
            error |-> "Upload failed: " \o res.error, entries |-> res.entries]
      ELSE [ok |-> TRUE, status |-> res.status, error |-> "",
            entries |-> res.entries]

\* download that returns the (empty) body of a 404
download_swallow(es, relayKey) ==
  LET res == RelayGet(es, relayKey)
  IN  [ok |-> TRUE, status |-> res.status, error |-> "", data |-> res.body,
       sent |-> res.sent, entries |-> res.entries]

\* download: ok = FALSE stands for the error thrown
download(es, relayKey) ==
  LET res == RelayGet(es, relayKey)
  IN  IF res.status = 404
      THEN [ok |-> FALSE, status |-> 404, error |-> NotFoundError,
            data |-> <<>>, sent |-> <<>>, entries |-> res.entries]
      ELSE IF res.status \notin 200..299
      THEN [ok |-> FALSE, status |-> res.status, error |-> "Download failed",
            data |-> <<>>, sent |-> <<>>, entries |-> res.entries]
      ELSE [ok |-> TRUE, status |-> res.status, error |-> "", data |-> res.body,
            sent |-> res.sent, entries |-> res.entries]

\* isSlurpArchive: both marker texts are in the first 200 bytes
isSlurpArchive(data) ==
  \E j \in 1..Len(data) : j <= 200 /\ data[j] = SLURP

\* what send is given: a file whose content has a line feed, a file whose
\* content has the marker text of an archive, and a directory (packDirectory
\* returns an archive, which starts with the marker text)
File(content) == [type |-> "file", content |-> content]
Directory == [type |-> "directory", content |-> <<SLURP, LF, 0>>]
Inputs == {File(<<0, LF, 0>>), File(<<SLURP, 0>>), Directory}

\* the payload send builds: the archive, or the header line and the content
payloadOf(input) ==
  IF input.type = "directory" THEN input.content
  ELSE <<HEADER, LF>> \o input.content

\* the codes send and receive are called with: one that generateCode can
\* return, one whose number is 0, and one with the same word twice
ClientCodes == {CodeText(<<"7">>, acid, acorn), CodeText(<<"0">>, acid, acorn),
                CodeText(<<"7">>, acid, acid)}

\* who put an entry and with what payload (history)
BySend(code, payload) == [by |-> "send", code |-> code, payload |-> payload]
ByOther == [by |-> "other", code |-> <<>>, payload |-> <<>>]

\* the result of a client call; again = the call before it was a successful
\* receive of the same code
ClientResult(op, code, relayKey, status, ok, error, body, value) ==
  [Result(op, join(relayKey), status, ok, error, body, <<>>, -1, Len(body), 0)
     EXCEPT !.code = code, !.value = value,
            !.again = (last.op = "receive" /\ last.ok /\ last.code = code),
            !.removed = IF /\ last.op = "receive"
                           /\ last.code = code
                           /\ last.status = 200
                           /\ last.error \in {TooShort, AuthFailed}
                        THEN 1 ELSE 0]

\* send(inputPath, {code}): the code is the caller's or generateCode's
send(code, input, iv) ==
  LET encKey == deriveEncryptionKey(code)
      relayKey == deriveRelayKey(code)
      payload == payloadOf(input)
      encrypted == encrypt(payload, encKey, iv)
      r == upload(entries, relayKey, encrypted, BySend(code, payload))
  IN  /\ entries' = r.entries
      /\ last' = IF r.ok
                 THEN ClientResult("send", code, relayKey, r.status, TRUE, "",
                                   payload,
                                   [type |-> input.type, size |-> Len(payload)])
                 ELSE ClientResult("send", code, relayKey, r.status, FALSE,
                                   r.error, <<>>, <<>>)
      /\ UNCHANGED <<cleanupTimer, now, conn, ledger, owed, race>>

\* the part of receive after decrypt: what is written for this payload
unpack(payload) ==
  IF isSlurpArchive(payload)
  THEN [ok |-> TRUE, error |-> "",
        value |-> [type |-> "directory", content |-> payload]]
  ELSE IF \A j \in 1..Len(payload) : payload[j] # LF
  THEN [ok |-> FALSE, error |-> NoHeader, value |-> <<>>]
  ELSE LET newlineIdx == CHOOSE j \in 1..Len(payload) :
                           /\ payload[j] = LF
                           /\ \A k \in 1..(j - 1) : payload[k] # LF
       IN  IF SubSeq(payload, 1, newlineIdx - 1) # <<HEADER>>
           THEN [ok |-> FALSE, error |-> BadHeader, value |-> <<>>]
           ELSE [ok |-> TRUE, error |-> "",
                 value |-> [type |-> "file",
                            content |-> SubSeq(payload, newlineIdx + 1, Len(payload))]]

\* receive without the isValidCode test
receive_noCheck(code) ==
  LET encKey == deriveEncryptionKey(code)
      relayKey == deriveRelayKey(code)
      r == download(entries, relayKey)
      d == decrypt(r.data, encKey)
      u == unpack(d.data)
  IN  /\ entries' = r.entries
      /\ last' = IF ~r.ok
                 THEN ClientResult("receive", code, relayKey, r.status, FALSE,
                                   r.error, <<>>, <<>>)
                 ELSE IF ~d.ok
                 THEN [ClientResult("receive", code, relayKey, r.status, FALSE,
                                    d.error, <<>>, <<>>)
                         EXCEPT !.sent = r.sent]
                 ELSE [ClientResult("receive", code, relayKey, r.status, u.ok,
                                    u.error, d.data, u.value)
                         EXCEPT !.sent = r.sent]
      /\ UNCHANGED <<cleanupTimer, now, conn, ledger, owed, race>>

\* receive that puts the envelope back when it does not open
receive_restore(code) ==
  IF ~isValidCode(code)
  THEN /\ last' = ClientResult("receive", code, <<>>, 0, FALSE, InvalidCode,
                               <<>>, <<>>)
       /\ UNCHANGED <<entries, cleanupTimer, now, conn, ledger, owed, race>>
  ELSE LET encKey == deriveEncryptionKey(code)
           relayKey == deriveRelayKey(code)
           r == download(entries, relayKey)
           d == decrypt(r.data, encKey)
           u == unpack(d.data)
       IN  /\ entries' = IF r.ok /\ ~d.ok THEN entries ELSE r.entries
           /\ last' = IF ~r.ok
                      THEN ClientResult("receive", code, relayKey, r.status,
                                        FALSE, r.error, <<>>, <<>>)
                      ELSE IF ~d.ok
                      THEN [ClientResult("receive", code, relayKey, r.status,
                                         FALSE, d.error, <<>>, <<>>)
                              EXCEPT !.sent = r.sent]
                      ELSE [ClientResult("receive", code, relayKey, r.status,
                                         u.ok, u.error, d.data, u.value)
                              EXCEPT !.sent = r.sent]
           /\ UNCHANGED <<cleanupTimer, now, conn, ledger, owed, race>>

\* receive(code)
receive(code) ==
  IF ~isValidCode(code)
  THEN /\ last' = ClientResult("receive", code, <<>>, 0, FALSE, InvalidCode,
                               <<>>, <<>>)
       /\ UNCHANGED <<entries, cleanupTimer, now, conn, ledger, owed, race>>
  ELSE LET encKey == deriveEncryptionKey(code)
           relayKey == deriveRelayKey(code)
           r == download(entries, relayKey)
           d == decrypt(r.data, encKey)
           u == unpack(d.data)
       IN  /\ entries' = r.entries
           /\ last' = IF ~r.ok
                      THEN ClientResult("receive", code, relayKey, r.status,
                                        FALSE, r.error, <<>>, <<>>)
                      ELSE IF ~d.ok
                      THEN [ClientResult("receive", code, relayKey, r.status,
                                         FALSE, d.error, <<>>, <<>>)
                              EXCEPT !.sent = r.sent]
                      ELSE [ClientResult("receive", code, relayKey, r.status,
                                         u.ok, u.error, d.data, u.value)
                              EXCEPT !.sent = r.sent]
           /\ UNCHANGED <<cleanupTimer, now, conn, ledger, owed, race>>

\* what someone who does not hold the code can put under a relay key: junk
\* of the length of an envelope, a single byte, and an envelope sealed under
\* another code
OtherCode == CodeText(<<"8">>, acid, acorn)
OtherBlobs ==
  {[j \in 1..(IV_LENGTH + AUTH_TAG_LENGTH) |-> Junk], <<Junk>>,
   encrypt(<<HEADER, LF, 0>>, deriveEncryptionKey(OtherCode), RandomIv(2))}

\* a PUT to the relay by someone else
OtherPut(relayKey, blob) ==
  LET res == RelayPut(entries, relayKey, blob, ByOther)
  IN  /\ entries' = res.entries
      /\ last' = ClientResult("put", <<>>, relayKey, res.status,
                              res.status = 201, res.error, <<>>, <<>>)
      /\ UNCHANGED <<cleanupTimer, now, conn, ledger, owed, race>>

NextClient ==
  \/ \E code \in ClientCodes, input \in Inputs : send(code, input, RandomIv(1))
  \/ \E code \in ClientCodes : receive(code)
  \/ \E code \in ClientCodes, blob \in OtherBlobs :
       OtherPut(deriveRelayKey(code), blob)

SpecClient == Init /\ [][NextClient]_vars

\* C21: the count the health check reports is the number of entries accepted
\* and not yet retrieved, deleted or swept, and none of the entries it
\* counts has reached the TTL.
C21_CountIsLive ==
  /\ count(entries) = owed
  /\ count(entries) = Cardinality({i \in DOMAIN entries : AgeOf(i) < ttlMs})

C23_ReceiveFailsFast ==
  [][ (last'.op = "receive" /\ ~parseCode(last'.code).ok)
        => /\ ~last'.ok
           /\ last'.error = InvalidCode
           /\ last'.id = ""
           /\ last'.status = 0
           /\ entries' = entries ]_vars

\* a receive was refused for a malformed code although the relay holds an
\* entry under the key of that code
C23_Witness ==
  /\ last.op = "receive"
  /\ last.error = InvalidCode
  /\ join(deriveRelayKey(last.code)) \in DOMAIN entries

\* the errors of a failed decryption
IntegrityErrors == {TooShort, AuthFailed}

\* C24: receive fails with the invalid-code error exactly for a malformed
\* code, with the not-found error exactly when the relay answers 404, and
\* with a decryption error exactly when the fetched envelope does not open
\* under the key of the code; the three are different errors, and a failed
\* receive returns no payload.
C24_DistinctFailures ==
  /\ InvalidCode # NotFoundError
  /\ InvalidCode \notin IntegrityErrors
  /\ NotFoundError \notin IntegrityErrors
  /\ last.op = "receive" =>
       /\ last.error = InvalidCode <=> ~isValidCode(last.code)
       /\ last.error = NotFoundError <=> last.status = 404
       /\ last.error \in IntegrityErrors <=>
            (last.status = 200 /\ last.sent.by = "other")
       /\ ~last.ok => (last.body = <<>> /\ last.value = <<>>)

\* a receive fetched an envelope sealed under another code and failed with
\* the authentication error
C24_Witness ==
  /\ last.op = "receive"
  /\ last.error = AuthFailed
  /\ last.status = 200
  /\ last.body = <<>>

\* C25: a send with a code that parseCode rejects fails with the
\* invalid-code error, derives no key, sends no request, and leaves the
\* relay's store as it was.
C25_SendFailsFast ==
  [][ (last'.op = "send" /\ ~parseCode(last'.code).ok)
        => /\ ~last'.ok
           /\ last'.error = InvalidCode
           /\ last'.id = ""
           /\ last'.status = 0
           /\ entries' = entries ]_vars

\* C26: a send whose relay key already holds an entry fails with an upload
\* error and returns nothing; the store is as it was, and a receive for the
\* code right after fetches the entry that was there.
C26_SendDuplicateFails ==
  [][ /\ (last'.op = "send" /\ last'.id \in DOMAIN entries)
        => /\ ~last'.ok
           /\ last'.status = 409
           /\ last'.error = "Upload failed: exists"
           /\ last'.value = <<>>
           /\ entries' = entries
      /\ (/\ last.op = "send" /\ last.status = 409 /\ isValidCode(last.code)
          /\ last'.op = "receive" /\ last'.code = last.code)
        => /\ last'.status = 200
           /\ last'.sent = entries[last.id].sent
           /\ last'.sent.by = "send" => last'.body = entries[last.id].sent.payload ]_vars

\* a send was refused as duplicate and the envelope of the earlier send is
\* still on the relay
C26_Witness ==
  /\ last.op = "send"
  /\ last.status = 409
  /\ last.id \in DOMAIN entries
  /\ entries[last.id].sent.by = "send"

\* C28: a code for which send or receive has derived keys has two different
\* words, both of the dictionary.
C28_WordsDistinctInDictionary ==
  (last.op \in {"send", "receive"} /\ last.id # "") =>
    LET parts == split(last.code)
    IN  /\ parts[2] \in Dictionary
        /\ parts[3] \in Dictionary
        /\ parts[2] # parts[3]

\* C31: decrypt fails and returns no byte when the key is not the one the
\* envelope was sealed under, when a byte of the envelope was overwritten,
\* and when the blob is shorter than 28 bytes (then with the too-short
\* error); it returns bytes only for an envelope sealed under its key.
C31_NoBytesOnFailure ==
  last.op = "decrypt" =>
    /\ last.len < 28 => (~last.ok /\ last.error = TooShort)
    /\ last.sent \in Altered => (~last.ok /\ last.error = AuthFailed)
    /\ (\E p \in Plaintexts, key \in Keys, iv \in Ivs :
          key # last.value /\ last.sent = encrypt(p, key, iv))
         => (~last.ok /\ last.error = AuthFailed)
    /\ ~last.ok => last.body = <<>>
    /\ last.ok => \E iv \in Ivs : last.sent = encrypt(last.body, last.value, iv)

\* decrypt of an envelope with a non-empty plaintext under another key failed
\* and returned nothing
C31_Witness ==
  /\ last.op = "decrypt"
  /\ last.error = AuthFailed
  /\ last.body = <<>>
  /\ \E p \in Plaintexts, key \in Keys, iv \in Ivs :
       /\ key # last.value
       /\ p # <<>>
       /\ last.sent = encrypt(p, key, iv)

C33_FirstEndWins ==
  [][/\ \A id \in Ids :
          (id \notin DOMAIN entries /\ id \in DOMAIN entries') => last'.op = "put"
     /\ \A c \in Conns :
          (conn[c].active /\ ~conn'[c].active /\ last'.op = "put") =>
            LET id == conn[c].id
            IN  IF id \notin DOMAIN entries
                THEN /\ last'.status = 201
                     /\ entries'[id].data = conn[c].sent
                     /\ entries'[id].createdAt = now
                     /\ \A j \in 1..Len(conn[c].sent) :
                          conn[c].sent[j] = ByteOf(c, j)
                     /\ \A d \in Conns \ {c} : conn'[d] = conn[d]
                ELSE /\ last'.status = 409
                     /\ entries' = entries
     /\ (last'.op = "get" /\ last'.status = 200) =>
          last'.body = entries[last'.id].data]_vars

\* the upload that has just been stored arrived, and got its first chunk,
\* after the request and the first chunk of an upload for the same id that
\* is still under way
C33_Witness ==
  \E c \in Conns, d \in Conns :
    /\ last.op = "put"
    /\ last.status = 201
    /\ ~conn[c].active
    /\ last.id \in DOMAIN entries
    /\ entries[last.id].data = <<ByteOf(c, 1)>>
    /\ entries[last.id].createdAt = now
    /\ conn[d].active
    /\ conn[d].id = last.id
    /\ conn[d].size > 0
    /\ conn[d].opened < conn[c].opened
    /\ conn[d].fed < conn[c].fed
    /\ conn[c].fed < now

\* responses written by the step of a request that has no body to wait for
Answers == {200, 204, 404, 405}

\* C34: a step writes at most one response. A request other than an upload
\* is answered in the step that handles it. For an upload, the step of its
\* arrival writes nothing; a 'data' step writes 413, ending the response,
\* exactly when the size passes the cap, and otherwise nothing; the 'end' or
\* 'error' that closes the request writes 201, 409 or 500 when the response
\* is not yet ended and nothing when it is: no step writes to an ended
\* response, and a closed request has been answered exactly once.
C34_AnsweredOnce ==
  [][/\ conn' = conn => last'.status \in Answers
     /\ \A c \in Conns :
          LET k == conn[c]
              k2 == conn'[c]
          IN  /\ (~k.active /\ k2.active) =>
                   (last'.status = 0 /\ ~k2.writableEnded)
              /\ (k.active /\ k2 # k /\ k.writableEnded) => last'.status = 0
              /\ (k.active /\ k2.active /\ k2 # k /\ ~k.writableEnded) =>
                   /\ last'.status \in {0, 413}
                   /\ last'.status = 413 <=> k2.writableEnded
              /\ (k.active /\ ~k2.active /\ ~k.writableEnded) =>
                   last'.status \in {201, 409, 500}]_vars

\* an upload answered 413 was closed by an 'error' and nothing more was
\* written to its response
C34_Witness ==
  /\ last.op = "error"
  /\ last.status = 0
  /\ last.len > maxSize
  /\ \A c \in RelayConns : ~conn[c].active

\* C35: a receive that fetched an envelope and failed to open it has taken
\* the entry out of the relay; the next receive with that code is answered
\* not found; and an entry comes into the relay only by an accepted upload.
C35_FetchedBeforeVerified ==
  [][/\ (last'.op = "receive" /\ last'.error \in IntegrityErrors) =>
          /\ last'.id \in DOMAIN entries
          /\ entries' = Without(entries, {last'.id})
     /\ (/\ last.op = "receive" /\ last.error \in IntegrityErrors
         /\ last'.op = "receive" /\ last'.code = last.code) =>
          (last'.error = NotFoundError /\ last'.status = 404)
     /\ \A id \in DOMAIN entries' \ DOMAIN entries :
          (last'.op \in {"send", "put"} /\ last'.status = 201)]_vars

\* a receive was answered not found right after a receive with the same
\* code had fetched an envelope that did not open
C35_Witness ==
  /\ last.op = "receive"
  /\ isValidCode(last.code)
  /\ last.error = NotFoundError
  /\ last.removed = 1
  /\ last.id \notin DOMAIN entries

\* a put for an absent id with data within the cap, made after destroy, is
\* accepted and its entry stored
PutAfterDestroy ==
  (/\ ~cleanupTimer
   /\ last'.op \in PutOps
   /\ last'.id \notin DOMAIN entries
   /\ last'.len <= maxSize) =>
    /\ last'.ok
    /\ last'.id \in DOMAIN entries'
    /\ entries'[last'.id].data = last'.sent
    /\ entries'[last'.id].createdAt = now

\* the steps in which entries leave the store once destroy has released the
\* timer are steps of these operations
LeavesOnlyBy(ops) ==
  (~cleanupTimer /\ DOMAIN entries \ DOMAIN entries' # {}) => last'.op \in ops

\* C36 as stated: after destroy a put is accepted and stored, and its entry
\* leaves the store only by a get, a delete or another destroy.
C36_OnlyGetDeleteDestroy ==
  [][PutAfterDestroy /\ LeavesOnlyBy({"get", "delete", "destroy"})]_vars

\* C36: after destroy a put is accepted and stored; the timer is never held
\* again and no sweep of the timer runs; the entry leaves the store only by
\* a get, a delete, another destroy or a cleanup that a caller runs itself.
C36_NoTimerExpiryAfterDestroy ==
  [][/\ PutAfterDestroy
     /\ LeavesOnlyBy({"get", "delete", "destroy", "cleanup"})
     /\ ~cleanupTimer => (~cleanupTimer' /\ last'.op # "timer")]_vars

\* a put was accepted by a destroyed store that still holds another entry,
\* put after the destroy as well and by now older than the TTL
C36_Witness ==
  /\ ~cleanupTimer
  /\ last.op \in PutOps
  /\ last.ok
  /\ last.id \in DOMAIN entries
  /\ \E i \in DOMAIN entries \ {last.id} : AgeOf(i) > ttlMs

====
